---- MODULE Spec2Model ----
(***************************************************************************)
(* Status-report backend: submission lateness (routers/submission.py) and  *)
(* the weekly-summary trigger (services/summary_service.py), over the      *)
(* records they read and write (memberships, prompt jobs, submissions,     *)
(* weekly summaries) and the server clock.                                 *)
(***************************************************************************)
EXTENDS Integers, Sequences, FiniteSets, TLC

\* ------------------------------------------------------------------ time
\* Instants are seconds since 1970-01-01T00:00:00Z.
Hour == 60 * 60
Day == 24 * Hour
\* timedelta(hours=24), submission.py:135 and summary_service.py:21
LateAfter == 24 * Hour

\* 1970-01-05 was a Monday; the clock starts that Monday at 09:00 UTC.
StartClock == 4 * Day + 9 * Hour

\* Offsets from StartClock at which the server clock is read.
ClockOffsets == <<0, 24 * Hour, 24 * Hour + 1>>

\* Index of the last clock reading.
MaxTime == Len(ClockOffsets) - 1

\* The readings that follow them where a specification lets the clock run on:
\* 26 hours, 46 hours, 50 hours, 50 hours and a second after the start.
LaterOffsets == <<26 * Hour, 46 * Hour, 50 * Hour, 50 * Hour + 1>>
LastTime == Len(ClockOffsets) + Len(LaterOffsets) - 1

ClockAt(i) == StartClock + (ClockOffsets \o LaterOffsets)[i + 1]

\* A datetime value: wall-clock seconds plus tzinfo (UTC, or NONE when naive).
Aware(t) == [wall |-> t, tz |-> "UTC"]
Naive(t) == [wall |-> t, tz |-> "NONE"]

\* datetime.now(timezone.utc)
NowUtc(clk) == Aware(clk)

\* scheduledFor.replace(tzinfo=timezone.utc) if tzinfo is None else scheduledFor
PromptTime(scheduledFor) ==
    IF scheduledFor.tz = "NONE" THEN [scheduledFor EXCEPT !.tz = "UTC"] ELSE scheduledFor

\* Comparing a naive with an aware datetime raises TypeError in Python.
Comparable(a, b) == (a.tz = "NONE") = (b.tz = "NONE")

\* now > (prompt_time + timedelta(hours=24))
IsLateNotStrict(now, prompt_time) == now.wall >= prompt_time.wall + LateAfter
IsLate(now, prompt_time) == now.wall > prompt_time.wall + LateAfter

\* datetime.combine(d.date(), datetime.min.time()).replace(tzinfo=timezone.utc)
MidnightOf(t) == (t \div Day) * Day
WeekStartOfPrompt(prompt_time) == Aware(MidnightOf(prompt_time.wall))

\* ------------------------------------------------------------ identities
Users == {"u1", "u2", "u3"}
\* users holding the role MANAGER: the manager of t1 and another one
Managers == {"m1", "m2"}
People == Users \cup Managers
Teams == {"t1"}
\* team ids a request may carry: the stored teams and one that does not exist
TeamIds == Teams \cup {"t9"}
Contents == {"c1", "c2"}
\* the content a new submission carries
NewContents == {"c1"}
SummaryTexts == {"s1", "s2"}
TriggerTypes == {"ALL_SUBMITTED", "TIMEOUT"}
\* the rosters a caller passes to check_and_generate_if_needed
Rosters == {{}, {"u1"}, {"u1", "u2"}, {"u1", "u2", "u3"}}

\* Authorization headers: absent, not a Bearer header, a Bearer token that
\* does not decode (bad signature or expired), or a decodable token.
TokenTypes == {"access", "refresh"}
Headers ==
    {[kind |-> "missing", sub |-> "", type |-> ""],
     [kind |-> "notbearer", sub |-> "", type |-> ""],
     [kind |-> "undecodable", sub |-> "", type |-> ""]}
    \cup {[kind |-> "token", sub |-> u, type |-> ty] : u \in Users, ty \in TokenTypes}

\* Bounds: the submissions stored when the summary service is explored, the
\* submissions stored when the submission endpoints are, and the prompt jobs
\* stored by SendPrompt.
MaxSubmissions == 2
MaxEdited == 1
MaxPrompts == 1

VARIABLES
    time,          \* index of the current clock reading
    aiPatched,     \* AIService.generate_team_summary replaced by a mock returning text
    memberships,   \* <<team, user>> -> "NONE" | "PENDING" | "ACTIVE"
    prompts,       \* ScheduledPromptJob rows, in creation order
    submissions,   \* Submission rows; the id is the index
    summaries,     \* WeeklySummary rows; the id is the index
    last,          \* the last call and its outcome
    evMembers,     \* evaluator input: the roster
    evSubmissions, \* evaluator input: the submission list
    evFirst,       \* first should_generate_summary call on the inputs
    evLast,        \* latest should_generate_summary call on the inputs
    aiCall,        \* the running AIService.generate_team_summary call
    issuedToken,   \* the access token the last verify_magic_link answered with
    users,         \* user id -> role ("NONE": no such user)
    teams,         \* team id -> Team row (manager, prompt schedule)
    gen,           \* caller -> its running SummaryService.generate_summary call
    serverZone,    \* seconds the server's local time is ahead of UTC
    memberRows,    \* TeamMembership rows (team, user), in creation order
    createdTeams,  \* Team rows stored by register and create_team, in creation order
    anonTokens     \* tokens the responses have handed to a caller without credentials

vars == <<time, aiPatched, memberships, prompts, submissions, summaries, last,
          evMembers, evSubmissions, evFirst, evLast, aiCall, issuedToken, users, teams,
          gen, serverZone, memberRows, createdTeams, anonTokens>>
dbVars == <<memberships, prompts, submissions, summaries>>
evVars == <<evMembers, evSubmissions, evFirst, evLast>>
\* the state of the components explored in specifications of their own
\* the state of the registration, zone and anonymous-caller models
regVars == <<serverZone, memberRows, createdTeams, anonTokens>>
extVars == <<aiCall, issuedToken, users, teams, gen, regVars>>
\* the variables of the submission and summary handlers
coreVars == <<time, aiPatched, memberships, prompts, submissions, summaries, last,
              evMembers, evSubmissions, evFirst, evLast>>

Clock == ClockAt(time)

\* op, status: the call and how it ended; sub, sum: the id of the submission or
\* summary it returned; team, members: its arguments; for generate_summary also
\* the trigger reason it was given, the week it wrote, the text it obtained and
\* whether it found a summary of that week.
NoCaller == [kind |-> "none", sub |-> ""]
NoCall == [op |-> "none", status |-> "", sub |-> 0, sum |-> 0, team |-> "",
           members |-> {}, trigger |-> "", week |-> 0, text |-> "", found |-> FALSE,
           caller |-> NoCaller, target |-> ""]
NoEval == [called |-> FALSE, now |-> 0, result |-> FALSE]

InitDb ==
    /\ memberships = [p \in Teams \X People |->
                        IF p = <<"t1", "u1">> THEN "ACTIVE"
                        ELSE IF p = <<"t1", "u2">> THEN "PENDING"
                        ELSE "NONE"]
    /\ prompts = <<>>
    /\ submissions = <<>>
    /\ summaries = <<>>
    /\ last = NoCall

\* No generate_team_summary call is running.
AiIdle == [pc |-> "idle", retries |-> 0, calls |-> 0, failures |-> <<>>,
           result |-> "", slept |-> 0]

\* No access token has been issued.
NoToken == [sub |-> "", team_id |-> "", type |-> "", minutes |-> 0]

\* The users and the team the tests start from: a team, its manager, another
\* manager, two members; u3 has no account yet.
InitUsers ==
    [p \in People |-> IF p \in Managers THEN "MANAGER"
                      ELSE IF p = "u3" THEN "NONE" ELSE "MEMBER"]
InitTeams ==
    [t \in Teams |-> [managerId |-> "m1", prompt_day |-> 1, prompt_time |-> "09:00",
                      timezone |-> "UTC"]]

\* The request contexts that can run generate_summary at the same time.
Callers == {"a", "b"}
\* No generate_summary call is running.
GenIdle == [pc |-> "idle", team |-> "", week |-> 0, text |-> "", trigger |-> "",
            existing |-> 0, status |-> ""]

\* The TeamMembership rows of the team the tests start from.
InitRows == <<[teamId |-> "t1", userId |-> "u1"], [teamId |-> "t1", userId |-> "u2"]>>

\* The offsets from UTC the server's local time may have: UTC, UTC-5, UTC+14.
ServerZones == {0, 0 - 5 * Hour, 14 * Hour}

InitExtRest ==
    /\ aiCall = AiIdle
    /\ issuedToken = NoToken
    /\ users = InitUsers
    /\ teams = InitTeams
    /\ gen = [c \in Callers |-> GenIdle]
    /\ memberRows = InitRows
    /\ createdTeams = <<>>
    /\ anonTokens = {}

\* The server's local time is UTC.
InitExtIdle ==
    /\ InitExtRest
    /\ serverZone = 0

InitEvalIdle ==
    /\ evMembers = {}
    /\ evSubmissions = <<>>
    /\ evFirst = NoEval
    /\ evLast = NoEval

Init ==
    /\ time = 0
    /\ aiPatched \in BOOLEAN
    /\ InitDb
    /\ InitEvalIdle
    /\ InitExtIdle

\* The server clock moves to its next reading.
Tick ==
    /\ time < MaxTime
    /\ time' = time + 1
    /\ last' = [NoCall EXCEPT !.op = "tick"]
    /\ UNCHANGED <<aiPatched, dbVars, evVars, extVars>>

\* The server clock moves to its next reading, the later readings included.
TickOn ==
    /\ time < LastTime
    /\ time' = time + 1
    /\ last' = [NoCall EXCEPT !.op = "tick"]
    /\ UNCHANGED <<aiPatched, dbVars, evVars, extVars>>

\* datetime.now(): the server's local time, without tzinfo
LocalNow(clk) == Naive(clk + serverZone)

\* ------------------------------------------------------------- prompts
JobStatuses == {"SENT"}

\* A prompt job is stored for a team at the current time: by the prompt
\* scheduler, or as the fixtures of the submission tests store one.  The
\* stored scheduledFor is read back with or without tzinfo.
SendPrompt(team_id, naive, job_status) ==
    /\ Len(prompts) < MaxPrompts
    /\ prompts' = Append(prompts,
                         [teamId |-> team_id,
                          scheduledFor |-> IF naive THEN Naive(Clock) ELSE Aware(Clock),
                          status |-> job_status])
    /\ last' = [NoCall EXCEPT !.op = "send_prompt", !.team = team_id]
    /\ UNCHANGED <<time, aiPatched, memberships, submissions, summaries, evVars, extVars>>

\* scheduledpromptjob.find_first(where teamId, status SENT; order scheduledFor desc):
\* the indices of the rows that can be returned (ties are broken by the store).
LatestSent(ps, team_id) ==
    {i \in 1..Len(ps) :
        /\ ps[i].teamId = team_id
        /\ ps[i].status = "SENT"
        /\ \A j \in 1..Len(ps) :
              (ps[j].teamId = team_id /\ ps[j].status = "SENT")
                  => ps[j].scheduledFor.wall <= ps[i].scheduledFor.wall}

\* --------------------------------------------------------- submissions
\* The header checks of create_submission and update_submission.
AuthenticatedAnyType(header) == header.kind = "token"
Authenticated(header) == header.kind = "token" /\ header.type = "access"

\* teammembership.find_first(status in [ACTIVE, PENDING])
MaySubmitActiveOnly(status) == status = "ACTIVE"
MaySubmit(status) == status \in {"ACTIVE", "PENDING"}

Reject(op_name, code, team_id) ==
    /\ last' = [NoCall EXCEPT !.op = op_name, !.status = code]
    /\ UNCHANGED <<time, aiPatched, dbVars, evVars, extVars>>

\* Lines 132-148 of create_submission, with the membership upgrade `ms` and the
\* prompt rows `ps` of the lines before already written.
StoreSubmission(user_id, team_id, content, ms, ps, scheduledFor) ==
    LET now == NowUtc(Clock)
        prompt_time == PromptTime(scheduledFor)
    IN  /\ memberships' = ms
        /\ prompts' = ps
        /\ IF ~Comparable(now, prompt_time)
           THEN \* TypeError, answered 500 by the except clause
                /\ submissions' = submissions
                /\ last' = [NoCall EXCEPT !.op = "create_submission", !.status = "500",
                                          !.team = team_id]
           ELSE /\ submissions' = Append(submissions,
                        [userId |-> user_id,
                         teamId |-> team_id,
                         content |-> content,
                         submittedAt |-> Clock,
                         updatedAt |-> Clock,
                         weekStartDate |-> WeekStartOfPrompt(prompt_time).wall,
                         isLate |-> IsLate(now, prompt_time)])
                /\ last' = [NoCall EXCEPT !.op = "create_submission", !.status = "200",
                                          !.team = team_id,
                                          !.sub = Len(submissions) + 1]
        /\ UNCHANGED <<time, aiPatched, summaries, evVars, extVars>>

\* The prompt job stored when the team has no SENT one (submission.py:122-130).
DefaultPromptUnsent(team_id, now) ==
    [teamId |-> team_id, scheduledFor |-> now, status |-> "PENDING"]
DefaultPrompt(team_id, now) ==
    [teamId |-> team_id, scheduledFor |-> now, status |-> "SENT"]

\* if team_member.status == "PENDING": teammembership.update(status ACTIVE)
UpgradedStatusKept(status) == status
UpgradedStatus(status) == IF status = "PENDING" THEN "ACTIVE" ELSE status

create_submission(header, team_id, content) ==
    IF ~Authenticated(header) THEN Reject("create_submission", "401", team_id)
    ELSE IF team_id \notin Teams THEN Reject("create_submission", "404", team_id)
    ELSE IF ~MaySubmit(memberships[<<team_id, header.sub>>])
    THEN Reject("create_submission", "403", team_id)
    ELSE LET ms == [memberships EXCEPT ![<<team_id, header.sub>>] = UpgradedStatus(@)]
             default == DefaultPrompt(team_id, NowUtc(Clock))
         IN  IF LatestSent(prompts, team_id) = {}
             THEN StoreSubmission(header.sub, team_id, content, ms,
                                  Append(prompts, default), default.scheduledFor)
             ELSE \E i \in LatestSent(prompts, team_id) :
                      StoreSubmission(header.sub, team_id, content, ms, prompts,
                                      prompts[i].scheduledFor)

\* The fields update_submission writes (submission.py:224-230).
UpdatedRowTouchingLate(row, content, now) ==
    [row EXCEPT !.content = content, !.updatedAt = now, !.isLate = FALSE]
UpdatedRow(row, content, now) ==
    [row EXCEPT !.content = content, !.updatedAt = now]

update_submission(header, submission_id, content) ==
    IF ~Authenticated(header) THEN Reject("update_submission", "401", "")
    ELSE IF submission_id \notin 1..Len(submissions)
    THEN Reject("update_submission", "404", "")
    ELSE IF submissions[submission_id].userId # header.sub
    THEN Reject("update_submission", "403", "")
    ELSE /\ submissions' = [submissions EXCEPT
                               ![submission_id] = UpdatedRow(@, content, Clock)]
         /\ last' = [NoCall EXCEPT !.op = "update_submission", !.status = "200",
                                   !.sub = submission_id]
         /\ UNCHANGED <<time, aiPatched, memberships, prompts, summaries, evVars, extVars>>

\* ------------------------------------------------------ summary service
\* min(submissions, key=lambda s: s['submittedAt'])['submittedAt']
OldestSubmittedAt(subs) ==
    CHOOSE t \in {subs[i].submittedAt : i \in 1..Len(subs)} :
        \A i \in 1..Len(subs) : t <= subs[i].submittedAt

\* SummaryService.should_generate_summary; `now` is the datetime.now(timezone.utc)
\* it reads.  The roster is a list without repetitions, modelled as a set.
ShouldGenerateIgnoringEmpty(members, subs, now) ==
    \/ Len(subs) >= Cardinality(members)
    \/ subs # <<>> /\ now.wall > OldestSubmittedAt(subs) + LateAfter
ShouldGenerateNotStrict(members, subs, now) ==
    IF members = {} \/ subs = <<>> THEN FALSE
    ELSE IF Len(subs) >= Cardinality(members) THEN TRUE
    ELSE now.wall >= OldestSubmittedAt(subs) + LateAfter
ShouldGenerateStrictlyMore(members, subs, now) ==
    IF members = {} \/ subs = <<>> THEN FALSE
    ELSE IF Len(subs) > Cardinality(members) THEN TRUE
    ELSE now.wall > OldestSubmittedAt(subs) + LateAfter
should_generate_summary(members, subs, now) ==
    IF members = {} \/ subs = <<>> THEN FALSE
    ELSE IF Len(subs) >= Cardinality(members) THEN TRUE
    ELSE now.wall > OldestSubmittedAt(subs) + LateAfter

\* What the call ai_service.generate_team_summary(submissions=..., team_name=...)
\* can give.  AIService.generate_team_summary takes no team_name parameter, so
\* the call itself raises TypeError unless the method has been replaced, as the
\* service tests replace it by a mock that returns the text it is given.
AiRaises == "raise"
AiOutcomes == IF aiPatched THEN SummaryTexts \cup {AiRaises} ELSE {AiRaises}

\* weeklysummary.find_first(where teamId, weekStartDate): the rows it can return
ExistingSummariesNeverFound(rows, team_id, week_start_date) == {}
ExistingSummaries(rows, team_id, week_start_date) ==
    {i \in 1..Len(rows) :
        rows[i].teamId = team_id /\ rows[i].weekStartDate = week_start_date}

\* weeklysummary.update(data = summaryText, triggerType, updatedAt)
UpdatedSummaryKeepingTrigger(row, summary_text, trigger_type, now) ==
    [row EXCEPT !.summaryText = summary_text, !.updatedAt = now]
UpdatedSummary(row, summary_text, trigger_type, now) ==
    [row EXCEPT !.summaryText = summary_text, !.triggerType = trigger_type,
                !.updatedAt = now]

\* weeklysummary.create(data = teamId, weekStartDate, summaryText, triggerType)
CreatedSummary(team_id, week_start_date, summary_text, trigger_type, now) ==
    [teamId |-> team_id, weekStartDate |-> week_start_date,
     summaryText |-> summary_text, triggerType |-> trigger_type,
     updatedAt |-> now]

\* SummaryService.generate_summary, called as `op_name`
GenerateSummary(op_name, team_id, subs, trigger_type, members) ==
    LET call == [NoCall EXCEPT !.op = op_name, !.team = team_id, !.members = members,
                               !.trigger = trigger_type]
    IN  /\ UNCHANGED <<time, aiPatched, memberships, prompts, submissions, evVars, extVars>>
        /\ \E ai \in AiOutcomes :
            IF team_id \notin Teams \/ subs = <<>> \/ ai = AiRaises
            THEN /\ summaries' = summaries
                 /\ last' = [call EXCEPT !.status = "raised"]
            ELSE LET week_start_date == subs[1].weekStartDate
                     existing == ExistingSummaries(summaries, team_id, week_start_date)
                 IN  IF existing # {}
                     THEN \E i \in existing :
                            /\ summaries' = [summaries EXCEPT
                                   ![i] = UpdatedSummary(@, ai, trigger_type, Clock)]
                            /\ last' = [call EXCEPT !.status = "returned", !.sum = i,
                                            !.week = week_start_date, !.text = ai,
                                            !.found = TRUE]
                     ELSE /\ summaries' = Append(summaries,
                                 CreatedSummary(team_id, week_start_date, ai,
                                                trigger_type, Clock))
                          /\ last' = [call EXCEPT !.status = "returned",
                                                  !.sum = Len(summaries) + 1,
                                                  !.week = week_start_date,
                                                  !.text = ai]

\* submission.find_many(where teamId, weekStartDate)
TeamWeekSubmissions(team_id, week_start) ==
    SelectSeq(submissions,
              LAMBDA s : s.teamId = team_id /\ s.weekStartDate = week_start)

\* The submission lists a caller of generate_summary passes: none, or a team's
\* submissions of one week.
StoredWeeks == {submissions[i].weekStartDate : i \in 1..Len(submissions)}

generate_summary(team_id, of_team, week_start, trigger_type) ==
    GenerateSummary("generate_summary", team_id,
                    TeamWeekSubmissions(of_team, week_start), trigger_type, {})

\* trigger_type of check_and_generate_if_needed (summary_service.py:96-100)
TriggerFor(members, subs) ==
    IF Len(subs) >= Cardinality(members) THEN "ALL_SUBMITTED" ELSE "TIMEOUT"

\* week_start of check_and_generate_if_needed: today 00:00 UTC
CheckWeekStart(now) == MidnightOf(now.wall)

check_and_generate_if_needed(team_id, members) ==
    LET now == NowUtc(Clock)
        subs == TeamWeekSubmissions(team_id, CheckWeekStart(now))
    IN  IF should_generate_summary(members, subs, now)
        THEN GenerateSummary("check_and_generate_if_needed", team_id, subs,
                             TriggerFor(members, subs), members)
        ELSE /\ last' = [NoCall EXCEPT !.op = "check_and_generate_if_needed",
                                       !.status = "none", !.team = team_id,
                                       !.members = members]
             /\ UNCHANGED <<time, aiPatched, dbVars, evVars, extVars>>

\* ------------------------------------------------------ specifications
\* Every operation, on every input.
Next ==
    \/ Tick
    \/ \E naive \in BOOLEAN, st \in JobStatuses : SendPrompt("t1", naive, st)
    \/ \E h \in Headers, t \in TeamIds, c \in NewContents :
          create_submission(h, t, c) /\ Len(submissions') <= MaxSubmissions
    \/ \E h \in Headers, id \in 1..(MaxSubmissions + 1), c \in Contents :
          update_submission(h, id, c)
    \/ \E t \in TeamIds, w \in StoredWeeks \cup {MidnightOf(Clock)},
          tr \in TriggerTypes : generate_summary(t, "t1", w, tr)
    \/ \E t \in TeamIds, members \in Rosters : check_and_generate_if_needed(t, members)

Spec == Init /\ [][Next]_vars

\* The submission endpoints, with the clock and the prompts they depend on.
NextSubmissions ==
    \/ Tick
    \/ \E naive \in BOOLEAN, st \in JobStatuses : SendPrompt("t1", naive, st)
    \/ \E h \in Headers, t \in TeamIds, c \in NewContents :
          create_submission(h, t, c) /\ Len(submissions') <= MaxEdited
    \/ \E h \in Headers, id \in 1..(MaxEdited + 1), c \in Contents :
          update_submission(h, id, c)

SpecSubmissions == Init /\ [][NextSubmissions]_vars

\* The summary service, over submissions stored by members holding an access
\* token.
MemberHeaders == {h \in Headers : h.kind = "token" /\ h.type = "access"}

NextSummaries ==
    \/ Tick
    \/ SendPrompt("t1", FALSE, "SENT")
    \/ \E h \in MemberHeaders :
          create_submission(h, "t1", "c1") /\ Len(submissions') <= MaxSubmissions
    \/ \E t \in TeamIds, w \in StoredWeeks \cup {MidnightOf(Clock)},
          tr \in TriggerTypes : generate_summary(t, "t1", w, tr)
    \/ \E t \in TeamIds, members \in Rosters : check_and_generate_if_needed(t, members)

SpecSummaries == Init /\ [][NextSummaries]_vars

\* ------------------------------------ the trigger evaluator on free inputs
MaxEvalSubs == 2
\* submission timestamps of the evaluator's inputs
EvalTimes == {StartClock - Hour, StartClock, StartClock + Hour}
EvalRows == [userId : Users, submittedAt : EvalTimes]
RECURSIVE SeqsUpTo(_, _)
SeqsUpTo(S, n) ==
    IF n = 0 THEN {<<>>}
    ELSE LET shorter == SeqsUpTo(S, n - 1)
         IN  shorter \cup {Append(q, x) : q \in {r \in shorter : Len(r) = n - 1}, x \in S}

InitEval ==
    /\ time = 0
    /\ aiPatched = FALSE
    /\ InitDb
    /\ evMembers \in SUBSET Users
    /\ evSubmissions \in SeqsUpTo(EvalRows, MaxEvalSubs)
    /\ evFirst = NoEval
    /\ evLast = NoEval
    /\ InitExtIdle

\* One invocation of should_generate_summary(evMembers, evSubmissions).
Evaluate ==
    LET r == [called |-> TRUE, now |-> Clock,
              result |-> should_generate_summary(evMembers, evSubmissions, NowUtc(Clock))]
    IN  /\ evLast' = r
        /\ evFirst' = IF evFirst.called THEN evFirst ELSE r
        /\ UNCHANGED <<time, aiPatched, dbVars, last, evMembers, evSubmissions, extVars>>

NextEval == Tick \/ Evaluate

SpecEval == InitEval /\ [][NextEval]_vars

\* ================================================================ claims
\* The scheduled time of the prompt a submission to team_id is measured
\* against: the latest among the team's SENT prompt jobs, read as UTC.
ReferenceWall(team_id) ==
    LET sent == {prompts[i].scheduledFor.wall : i \in
                    {j \in 1..Len(prompts) :
                        prompts[j].teamId = team_id /\ prompts[j].status = "SENT"}}
    IN  CHOOSE p \in sent : \A q \in sent : q <= p

Created == last.op = "create_submission" /\ last.status = "200"

\* C1: a submission accepted by create_submission is stored late exactly when
\* the server clock at the request is strictly more than 24 hours after the
\* scheduled time of the reference prompt, a prompt time without timezone
\* being read as UTC (no request fails on the comparison); exactly 24 hours
\* after the prompt is not late, 24 hours and one second after it is late.
C1_LateIffMoreThan24h ==
    /\ last.op = "create_submission" => last.status # "500"
    /\ Created =>
        LET row == submissions[last.sub]
        IN  /\ row.submittedAt = Clock
            /\ row.isLate = (row.submittedAt - ReferenceWall(row.teamId) > 24 * 60 * 60)

\* C1 witness: a submission made 24 hours and one second after a prompt whose
\* stored time carries no timezone, stored late.
C1_Witness ==
    /\ Created
    /\ submissions[last.sub].isLate
    /\ submissions[last.sub].submittedAt
          = ReferenceWall(submissions[last.sub].teamId) + 24 * 60 * 60 + 1
    /\ \E i \in 1..Len(prompts) : prompts[i].scheduledFor.tz = "NONE"

\* C8: a stored submission keeps its isLate flag, week-start-date, submission
\* timestamp, author and team; an accepted update_submission changes only the
\* content and the update timestamp of the submission it names, and a rejected
\* one (401, 404, 403) changes no stored data.
SameIdentity(old, new) ==
    /\ new.isLate = old.isLate
    /\ new.weekStartDate = old.weekStartDate
    /\ new.submittedAt = old.submittedAt
    /\ new.userId = old.userId
    /\ new.teamId = old.teamId

C8_StepKeepsSubmissions ==
    /\ Len(submissions') >= Len(submissions)
    /\ \A i \in 1..Len(submissions) : SameIdentity(submissions[i], submissions'[i])
    /\ last'.op = "update_submission" =>
          /\ <<memberships, prompts, summaries>>' = <<memberships, prompts, summaries>>
          /\ Len(submissions') = Len(submissions)
          /\ \A i \in 1..Len(submissions) :
                (last'.status # "200" \/ i # last'.sub) => submissions'[i] = submissions[i]

C8_SubmissionsImmutable == [][C8_StepKeepsSubmissions]_vars

\* C8 witness: the owner has edited a late submission; the content is new, the
\* update timestamp is the time of the edit, the flag is still set.
C8_Witness ==
    /\ last.op = "update_submission" /\ last.status = "200"
    /\ submissions[last.sub].isLate
    /\ submissions[last.sub].content = "c2"
    /\ submissions[last.sub].updatedAt = Clock

\* C9: every submission stored by create_submission has a week-start-date that
\* is a Monday (00:00 UTC), the Monday of the week it was submitted in.
C9_WeekStartIsMonday ==
    \A i \in 1..Len(submissions) :
        /\ submissions[i].weekStartDate % (24 * 60 * 60) = 0
        /\ ((submissions[i].weekStartDate \div (24 * 60 * 60)) + 3) % 7 = 0
        /\ submissions[i].weekStartDate <= submissions[i].submittedAt
        /\ submissions[i].submittedAt < submissions[i].weekStartDate + 7 * 24 * 60 * 60

\* ----------------------------------------------- summary trigger claims
Checked == last.op = "check_and_generate_if_needed"
Generated == last.op \in {"generate_summary", "check_and_generate_if_needed"}
                /\ last.status = "returned"

\* The stored submissions of a team whose week-start-date is the day of `clk`.
TodaysSubmissionIds(team_id, clk) ==
    {i \in 1..Len(submissions) :
        /\ submissions[i].teamId = team_id
        /\ submissions[i].weekStartDate = (clk \div (24 * 60 * 60)) * (24 * 60 * 60)}
Submitters(team_id, clk) ==
    {submissions[i].userId : i \in TodaysSubmissionIds(team_id, clk)}
FirstSubmittedAt(team_id, clk) ==
    CHOOSE t \in {submissions[i].submittedAt : i \in TodaysSubmissionIds(team_id, clk)} :
        \A i \in TodaysSubmissionIds(team_id, clk) : t <= submissions[i].submittedAt

\* The rosters, submission lists and clock readings the evaluator is tried on,
\* once, before the first request.
AnyRoster == SUBSET Users
AnyNow == {NowUtc(ClockAt(i)) : i \in 0..MaxTime}
BeforeFirstRequest == last.op = "none"
AnyList == SeqsUpTo(EvalRows, MaxEvalSubs)
DistinctSubmitters(subs) == {subs[i].userId : i \in 1..Len(subs)}

\* C2: should_generate_summary is false whenever the roster or the submission
\* list is empty, whatever the other argument and the time; then
\* check_and_generate_if_needed returns None and the summaries stay as they are.
C2_StepEmptyInput ==
    /\ BeforeFirstRequest =>
          \A now \in AnyNow :
              /\ \A subs \in AnyList : ~should_generate_summary({}, subs, now)
              /\ \A members \in AnyRoster : ~should_generate_summary(members, <<>>, now)
    /\ (/\ last'.op = "check_and_generate_if_needed"
        /\ (last'.members = {} \/ TodaysSubmissionIds(last'.team, Clock) = {}))
          => /\ last'.status = "none"
             /\ summaries' = summaries

C2_EmptyInputNoSummary == [][C2_StepEmptyInput]_vars

\* C2 witness: a check with an empty roster, for a team that has a submission
\* this week, has returned None.
C2_Witness ==
    /\ Checked
    /\ last.members = {}
    /\ TodaysSubmissionIds(last.team, Clock) # {}
    /\ last.status = "none"

\* C3: with a non-empty roster and a non-empty submission list whose distinct
\* submitters are at least as many as the roster, should_generate_summary is
\* true at any time, and check_and_generate_if_needed goes on to generate with
\* the trigger reason ALL_SUBMITTED, which the summary it returns carries.
C3_AllSubmitted ==
    /\ BeforeFirstRequest =>
          \A now \in AnyNow, members \in AnyRoster \ {{}}, subs \in AnyList \ {<<>>} :
              Cardinality(DistinctSubmitters(subs)) >= Cardinality(members)
                  => should_generate_summary(members, subs, now)
    /\ (/\ Checked
        /\ last.members # {}
        /\ Cardinality(Submitters(last.team, Clock)) >= Cardinality(last.members))
          => /\ last.status \in {"returned", "raised"}
             /\ last.trigger = "ALL_SUBMITTED"
             /\ last.status = "returned" =>
                   /\ summaries[last.sum].triggerType = "ALL_SUBMITTED"
                   /\ summaries[last.sum].teamId = last.team

\* C3 witness: both members of a roster of two have submitted and the check has
\* returned a summary with the trigger reason ALL_SUBMITTED.
C3_Witness ==
    /\ Checked
    /\ last.status = "returned"
    /\ last.members = {"u1", "u2"}
    /\ Submitters(last.team, Clock) = {"u1", "u2"}
    /\ summaries[last.sum].triggerType = "ALL_SUBMITTED"

\* C4: check_and_generate_if_needed chooses the trigger reason ALL_SUBMITTED only
\* when every member of the roster has a submission recorded for the week, and
\* generates nothing while some member has not submitted and 24 hours have not
\* elapsed since the first submission.
C4_AllSubmittedMeansEveryMember ==
    Checked =>
        /\ last.trigger = "ALL_SUBMITTED" => last.members \subseteq Submitters(last.team, Clock)
        /\ (/\ ~(last.members \subseteq Submitters(last.team, Clock))
            /\ TodaysSubmissionIds(last.team, Clock) # {}
            /\ Clock <= FirstSubmittedAt(last.team, Clock) + 24 * 60 * 60)
              => last.status = "none"

\* -------------------------------------------------- summary record claims
SummaryIdsOf(rows, team_id, week) ==
    {i \in 1..Len(rows) : rows[i].teamId = team_id /\ rows[i].weekStartDate = week}

OneSummaryPerTeamWeek(rows) ==
    \A i, j \in 1..Len(rows) :
        (rows[i].teamId = rows[j].teamId /\ rows[i].weekStartDate = rows[j].weekStartDate)
            => i = j

GeneratedNow ==
    /\ last'.op \in {"generate_summary", "check_and_generate_if_needed"}
    /\ last'.status = "returned"

\* C6: after any sequence of generate_summary and check_and_generate_if_needed
\* calls there is at most one summary per (team, week-start-date); a generation
\* for a week that already has a summary returns that record and adds none.
C6_StepOneSummaryPerWeek ==
    /\ OneSummaryPerTeamWeek(summaries')
    /\ (GeneratedNow /\ SummaryIdsOf(summaries, last'.team, last'.week) # {})
          => /\ Len(summaries') = Len(summaries)
             /\ last'.sum \in SummaryIdsOf(summaries, last'.team, last'.week)

C6_OneSummaryPerWeek == [][C6_StepOneSummaryPerWeek]_vars

\* C6 witness: a second generation for a week, by check_and_generate_if_needed,
\* has found the week's summary and returned it; it is still the only one.
C6_Witness ==
    /\ Checked
    /\ last.status = "returned"
    /\ last.found
    /\ Len(summaries) = 1

\* C7: when generate_summary runs for a (team, week) that has a summary, the
\* record it returns is that one, with its team and week-start-date as before
\* and its text and trigger reason those of the new generation; no other
\* summary changes.
C7_StepUpdateInPlace ==
    (GeneratedNow /\ SummaryIdsOf(summaries, last'.team, last'.week) # {})
        => /\ last'.sum \in SummaryIdsOf(summaries, last'.team, last'.week)
           /\ summaries'[last'.sum].teamId = summaries[last'.sum].teamId
           /\ summaries'[last'.sum].weekStartDate = summaries[last'.sum].weekStartDate
           /\ summaries'[last'.sum].summaryText = last'.text
           /\ summaries'[last'.sum].triggerType = last'.trigger
           /\ \A i \in 1..Len(summaries) : i # last'.sum => summaries'[i] = summaries[i]

C7_UpdateInPlace == [][C7_StepUpdateInPlace]_vars

\* C7 witness: generate_summary has rewritten, with the trigger reason TIMEOUT
\* and the text "s2", a summary of an earlier day.
C7_Witness ==
    /\ last.op = "generate_summary" /\ last.status = "returned"
    /\ last.found
    /\ last.trigger = "TIMEOUT" /\ last.text = "s2"
    /\ summaries[last.sum].triggerType = "TIMEOUT"
    /\ summaries[last.sum].summaryText = "s2"
    /\ summaries[last.sum].weekStartDate < (Clock \div (24 * 60 * 60)) * (24 * 60 * 60)

\* --------------------------------------------- evaluator on free inputs
EvalOldest ==
    CHOOSE t \in {evSubmissions[i].submittedAt : i \in 1..Len(evSubmissions)} :
        \A i \in 1..Len(evSubmissions) : t <= evSubmissions[i].submittedAt

\* C5: with a non-empty roster and fewer submissions than members,
\* should_generate_summary is true exactly when the current time is strictly
\* more than 24 hours after the earliest submission (23 hours: false, exactly
\* 24 hours: false, 25 hours: true).
C5_TimeoutIffMoreThan24h ==
    (evLast.called /\ evMembers # {} /\ Len(evSubmissions) < Cardinality(evMembers))
        => evLast.result =
              (evSubmissions # <<>> /\ evLast.now - EvalOldest > 24 * 60 * 60)

\* C5 witness: three members, two submissions, the earliest 25 hours old, and
\* the evaluator has answered true.
C5_Witness ==
    /\ evLast.called
    /\ evLast.result
    /\ Cardinality(evMembers) = 3
    /\ Len(evSubmissions) = 2
    /\ evLast.now - EvalOldest = 25 * 60 * 60

\* C10, as stated: two invocations with the same roster and the same
\* submissions return the same result, whenever they are made.
C10_SameResultWhenever ==
    (evFirst.called /\ evLast.called) => evFirst.result = evLast.result

\* C10, amended: for the same roster and submissions the result depends on the
\* time of the call alone; a later call differs from an earlier one only by
\* answering true after false, and only when the submissions are fewer than
\* the members and the 24th hour after the earliest submission ended between
\* the two calls.
C10_SameResultUnlessDeadlinePassed ==
    (evFirst.called /\ evLast.called) =>
        /\ evFirst.result => evLast.result
        /\ evFirst.result # evLast.result =>
              /\ evSubmissions # <<>>
              /\ Len(evSubmissions) < Cardinality(evMembers)
              /\ evFirst.now <= EvalOldest + 24 * 60 * 60
              /\ EvalOldest + 24 * 60 * 60 < evLast.now

\* C10 witness: the same inputs answered false, then true a second after the
\* deadline.
C10_Witness ==
    /\ evFirst.called /\ evLast.called
    /\ ~evFirst.result /\ evLast.result
    /\ evLast.now = EvalOldest + 24 * 60 * 60 + 1

\* ============================================== AIService.generate_team_summary
\* self.max_retries and self.retry_delay (seconds), set by AIService.__init__
max_retries == 3
retry_delay == 1

\* What one client.chat.completions.create call can give: a response text, or
\* an exception.
AiErrors == {"rate_limit", "timeout", "api_error", "connection"}
AiResponses == SummaryTexts

\* while retries < self.max_retries
MayAttempt(retries) == retries < max_retries

\* if retries == self.max_retries: raise e
RaisesAfterOneMore(retries) == retries > max_retries
RaisesAfter(retries) == retries = max_retries

AiDone == {"returned", "raised"}

\* generate_team_summary is called: retries = 0, and the loop is entered.
AiInvoke ==
    /\ aiCall.pc \in {"idle"} \cup AiDone
    /\ aiCall' = [AiIdle EXCEPT !.pc = "loop"]
    /\ UNCHANGED <<coreVars, issuedToken, users, teams, gen, regVars>>

\* One turn of the loop: the test of its condition and, when it holds, one
\* call of the text-generation service with its outcome.
AiAttempt(outcome) ==
    /\ aiCall.pc = "loop"
    /\ UNCHANGED <<coreVars, issuedToken, users, teams, gen, regVars>>
    /\ IF ~MayAttempt(aiCall.retries)
       THEN \* the loop ends and the function returns None
            aiCall' = [aiCall EXCEPT !.pc = "returned", !.result = "None"]
       ELSE IF outcome \in AiResponses
       THEN aiCall' = [aiCall EXCEPT !.pc = "returned", !.calls = @ + 1,
                                     !.result = outcome]
       ELSE LET retries == aiCall.retries + 1
            IN  aiCall' = [aiCall EXCEPT
                              !.calls = @ + 1,
                              !.retries = retries,
                              !.failures = Append(@, outcome),
                              !.pc = IF RaisesAfter(retries) THEN "raised" ELSE "sleep",
                              !.result = IF RaisesAfter(retries) THEN outcome ELSE @]

\* await asyncio.sleep(self.retry_delay * retries) has returned.
AiWake ==
    /\ aiCall.pc = "sleep"
    /\ aiCall' = [aiCall EXCEPT !.pc = "loop", !.slept = @ + retry_delay * aiCall.retries]
    /\ UNCHANGED <<coreVars, issuedToken, users, teams, gen, regVars>>

AiStep == (\E o \in AiResponses \cup AiErrors : AiAttempt(o)) \/ AiWake

InitAi ==
    /\ time = 0
    /\ aiPatched = FALSE
    /\ InitDb
    /\ InitEvalIdle
    /\ InitExtIdle

NextAi ==
    \/ AiInvoke
    \/ \E o \in AiResponses \cup AiErrors : AiAttempt(o)
    \/ AiWake

\* Each awaited service call ends (the HTTP client has a 60 s timeout) and each
\* sleep returns, so a running call always takes its next step.
SpecAi == InitAi /\ [][NextAi]_vars /\ WF_vars(AiStep)

\* C11: generate_team_summary calls the text-generation service at most 3
\* times; it returns the first response with no call after it, tries again
\* after the first and after the second failure, raises the third failure after
\* three failures in a row, and every call of it ends (returns or raises).
C11_AtMostThreeCalls ==
    /\ aiCall.calls <= 3
    /\ aiCall.calls = Len(aiCall.failures) + (IF aiCall.pc = "returned" THEN 1 ELSE 0)
    /\ aiCall.pc = "returned" =>
          /\ Len(aiCall.failures) <= 2
          /\ aiCall.result \in {"s1", "s2"}
    /\ aiCall.pc = "raised" =>
          /\ Len(aiCall.failures) = 3
          /\ aiCall.result = aiCall.failures[3]
    /\ aiCall.pc \in {"sleep", "loop"} => Len(aiCall.failures) <= 2
    /\ aiCall.pc = "sleep" => Len(aiCall.failures) >= 1

C11_StepNoCallAfterTheEnd ==
    (aiCall.pc \in {"returned", "raised"} /\ aiCall'.pc \in {"returned", "raised"})
        => aiCall' = aiCall

C11_RetriesBoundedAndEnds ==
    /\ []C11_AtMostThreeCalls
    /\ [][C11_StepNoCallAfterTheEnd]_vars
    /\ (aiCall.pc \in {"loop", "sleep"}) ~> (aiCall.pc \in {"returned", "raised"})

\* C11 witness: a call that failed three times has raised the third failure,
\* after sleeping 1 s and 2 s.
C11_Witness ==
    /\ aiCall.pc = "raised"
    /\ aiCall.calls = 3
    /\ aiCall.failures = <<"rate_limit", "timeout", "api_error">>
    /\ aiCall.result = "api_error"
    /\ aiCall.slept = 3

\* ====================================== create_submission: rejections, prompts
\* What a create_submission request is, in the words of the claims.
HeaderRefused(h) ==
    \/ h.kind \in {"missing", "notbearer", "undecodable"}
    \/ h.kind = "token" /\ h.type # "access"
TeamExists(t) == t \in {"t1"}
IsMember(h, t) == TeamExists(t) /\ memberships[<<t, h.sub>>] \in {"ACTIVE", "PENDING"}
HasSentPrompt(t) ==
    \E i \in 1..Len(prompts) : prompts[i].teamId = t /\ prompts[i].status = "SENT"

\* create_submission alone, with the clock and the prompts it depends on.
NextCreate ==
    \/ Tick
    \/ \E naive \in BOOLEAN, st \in JobStatuses : SendPrompt("t1", naive, st)
    \/ \E h \in Headers, t \in TeamIds, c \in NewContents :
          create_submission(h, t, c) /\ Len(submissions') <= MaxSubmissions

SpecCreate == Init /\ [][NextCreate]_vars

\* C12: create_submission answers 401 when the Authorization header is missing
\* or not a Bearer header or its token does not decode or is not an access
\* token; otherwise 404 when the team does not exist; otherwise 403 when the
\* user has no ACTIVE or PENDING membership in the team; it answers one of
\* these only in these cases, and then stores and changes nothing.
C12_StepRejections ==
    \A h \in Headers, t \in TeamIds, c \in NewContents :
        create_submission(h, t, c) =>
            /\ HeaderRefused(h) => last'.status = "401"
            /\ (~HeaderRefused(h) /\ ~TeamExists(t)) => last'.status = "404"
            /\ (~HeaderRefused(h) /\ TeamExists(t) /\ ~IsMember(h, t))
                  => last'.status = "403"
            /\ (~HeaderRefused(h) /\ IsMember(h, t)) => last'.status = "200"
            /\ last'.status \in {"401", "404", "403"} =>
                  <<memberships, prompts, submissions, summaries>>'
                      = <<memberships, prompts, submissions, summaries>>

C12_RejectionsInOrder == [][C12_StepRejections]_vars

\* C12 witness: after a submission and its prompt have been stored, a request
\* with a valid token for the existing team has been answered 403.
C12_Witness ==
    /\ last.op = "create_submission"
    /\ last.status = "403"
    /\ Len(submissions) = 1
    /\ Len(prompts) = 1

\* C13, as stated: when the team has no SENT prompt, a member's
\* create_submission is answered 400 and no submission is created.
C13_StepNoPromptRejected ==
    \A h \in Headers, t \in TeamIds, c \in NewContents :
        (create_submission(h, t, c) /\ ~HeaderRefused(h) /\ IsMember(h, t)
            /\ ~HasSentPrompt(t))
            => /\ last'.status = "400"
               /\ submissions' = submissions

C13_StepNoPromptAccepted ==
    /\ last'.op = "create_submission" => last'.status # "400"
    /\ \A h \in Headers, t \in TeamIds, c \in NewContents :
          (create_submission(h, t, c) /\ ~HeaderRefused(h) /\ IsMember(h, t)
              /\ ~HasSentPrompt(t))
              => /\ last'.status = "200"
                 /\ Len(submissions') = Len(submissions) + 1
                 /\ last'.sub = Len(submissions')
                 /\ submissions'[last'.sub].userId = h.sub
                 /\ submissions'[last'.sub].teamId = t
                 /\ submissions'[last'.sub].content = c
                 /\ \A i \in 1..Len(submissions) : submissions'[i] = submissions[i]

C20_StepDefaultPrompt ==
    \A h \in Headers, t \in TeamIds, c \in NewContents :
        (create_submission(h, t, c) /\ ~HeaderRefused(h) /\ IsMember(h, t)
            /\ ~HasSentPrompt(t))
            => /\ last'.status = "200"
               /\ Len(prompts') = Len(prompts) + 1
               /\ \A i \in 1..Len(prompts) : prompts'[i] = prompts[i]
               /\ prompts'[Len(prompts')].teamId = t
               /\ prompts'[Len(prompts')].status = "SENT"
               /\ prompts'[Len(prompts')].scheduledFor = [wall |-> Clock, tz |-> "UTC"]
               /\ ~submissions'[last'.sub].isLate

CallerTokens ==
    {[kind |-> "missing", sub |-> ""],
     [kind |-> "undecodable", sub |-> ""],
     [kind |-> "token", sub |-> ""]}
    \cup {[kind |-> "token", sub |-> p] : p \in People}

\* get_current_user: the user of the token, or "" where it raises 401.
get_current_user(token) ==
    IF token.kind # "token" THEN ""
    ELSE IF token.sub = "" THEN ""
    ELSE IF users[token.sub] = "NONE" THEN ""
    ELSE token.sub

\* get_current_manager: current_user.role != "MANAGER" raises 403.
IsManagerRole(user_id) == users[user_id] = "MANAGER"

\* validate_team_access: "404" (no such team), "403" (another manager's team)
\* or "ok".
ValidateAnyManager(team_id, current_user_id) ==
    IF team_id \notin Teams THEN "404" ELSE "ok"
validate_team_access(team_id, current_user_id) ==
    IF team_id \notin Teams THEN "404"
    ELSE IF teams[team_id].managerId # current_user_id THEN "403"
    ELSE "ok"

\* The dependencies and the access check every team-changing handler starts
\* with: the status it is refused with, or "ok".
TeamAccess(token, team_id) ==
    LET current_user == get_current_user(token)
    IN  IF current_user = "" THEN "401"
        ELSE IF ~IsManagerRole(current_user) THEN "403"
        ELSE validate_team_access(team_id, current_user)

\* A refused team or user request: the answer is recorded, nothing is stored.
RefuseTeam(op_name, code, token, team_id) ==
    /\ last' = [NoCall EXCEPT !.op = op_name, !.status = code, !.team = team_id,
                              !.caller = token]
    /\ UNCHANGED <<time, aiPatched, dbVars, evVars, extVars>>

\* --------------------------------------------------------- add_team_members
\* Bound: the emails of one add_team_members request.
MaxEmails == 2
\* An email stands for the person it belongs to.
EmailPool == {"u2", "u3", "m1", "m2"}
EmailLists == SeqsUpTo(EmailPool, MaxEmails)

\* The users and memberships the transaction holds after the first k emails:
\* a user is created (role MEMBER) when the email has none, a membership
\* (status ACTIVE) when the user has none in the team.
RECURSIVE AddedUsers(_, _)
AddedUsers(emails, k) ==
    IF k = 0 THEN users
    ELSE [AddedUsers(emails, k - 1) EXCEPT
             ![emails[k]] = IF @ = "NONE" THEN "MEMBER" ELSE @]

\* teammembership.find_first(team, user) on the rows
HasRow(rows, team_id, user_id) ==
    \E i \in 1..Len(rows) : rows[i].teamId = team_id /\ rows[i].userId = user_id

RECURSIVE AddedRowsUnchecked(_, _, _)
AddedRowsUnchecked(team_id, emails, k) ==
    IF k = 0 THEN memberRows
    ELSE Append(AddedRowsUnchecked(team_id, emails, k - 1),
                [teamId |-> team_id, userId |-> emails[k]])

RECURSIVE AddedRows(_, _, _)
AddedRows(team_id, emails, k) ==
    IF k = 0 THEN memberRows
    ELSE LET rows == AddedRows(team_id, emails, k - 1)
         IN  IF HasRow(rows, team_id, emails[k]) THEN rows
             ELSE Append(rows, [teamId |-> team_id, userId |-> emails[k]])

RECURSIVE AddedMemberships(_, _, _)
AddedMemberships(team_id, emails, k) ==
    IF k = 0 THEN memberships
    ELSE [AddedMemberships(team_id, emails, k - 1) EXCEPT
             ![<<team_id, emails[k]>>] = IF @ = "NONE" THEN "ACTIVE" ELSE @]

\* async with prisma.tx(): what is stored when the block ends, normally or by
\* an exception.
TxOutcomePartial(staged, original, failed) == staged
TxOutcome(staged, original, failed) == IF failed THEN original ELSE staged

\* last.members is the emails whose rows the transaction had written when the
\* block ended.  fail_at = 0: no query fails.  fail_at = k > 0: a query raises while the k-th
\* email is processed, before (after_user = FALSE) or after (TRUE) its user row
\* was written; the except clause answers 500.
add_team_members(token, team_id, emails, fail_at, after_user) ==
    LET code == TeamAccess(token, team_id)
        failed == fail_at > 0
        users_done == IF ~failed THEN Len(emails)
                      ELSE IF after_user THEN fail_at ELSE fail_at - 1
        members_done == IF failed THEN fail_at - 1 ELSE Len(emails)
    IN  IF code # "ok" THEN RefuseTeam("add_team_members", code, token, team_id)
        ELSE /\ users' = TxOutcome(AddedUsers(emails, users_done), users, failed)
             /\ memberships' = TxOutcome(AddedMemberships(team_id, emails, members_done),
                                         memberships, failed)
             /\ last' = [NoCall EXCEPT !.op = "add_team_members",
                                       !.status = IF failed THEN "500" ELSE "200",
                                       !.team = team_id, !.caller = token,
                                       !.members = {emails[i] : i \in 1..users_done}]
             /\ memberRows' = TxOutcome(AddedRows(team_id, emails, members_done),
                                        memberRows, failed)
             /\ UNCHANGED <<time, aiPatched, prompts, submissions, summaries, evVars,
                            aiCall, issuedToken, teams, gen, serverZone, createdTeams,
                            anonTokens>>

\* ----------------------------------------------------- update_team_schedule
Schedules == [prompt_day : {2, 7}, prompt_time : {"10:00"},
              timezone : {"", "Europe/London"}]

\* update_data of update_team_schedule; the timezone is written when given
UpdatedSchedule(row, schedule) ==
    [row EXCEPT !.prompt_day = schedule.prompt_day,
                !.prompt_time = schedule.prompt_time,
                !.timezone = IF schedule.timezone # "" THEN schedule.timezone ELSE @]

\* stored = FALSE: team.update raises (the store rejects the data or cannot
\* be reached), and the except clause answers 500.
update_team_schedule(token, team_id, schedule, stored) ==
    LET code == TeamAccess(token, team_id)
    IN  IF code # "ok" THEN RefuseTeam("update_team_schedule", code, token, team_id)
        ELSE IF ~(0 <= schedule.prompt_day /\ schedule.prompt_day <= 6)
        THEN RefuseTeam("update_team_schedule", "400", token, team_id)
        ELSE IF ~stored THEN RefuseTeam("update_team_schedule", "500", token, team_id)
        ELSE /\ teams' = [teams EXCEPT ![team_id] = UpdatedSchedule(@, schedule)]
             /\ last' = [NoCall EXCEPT !.op = "update_team_schedule", !.status = "200",
                                       !.team = team_id, !.caller = token]
             /\ UNCHANGED <<time, aiPatched, dbVars, evVars, aiCall, issuedToken, users, gen,
                            regVars>>

\* ------------------------------------------------------------ resend_prompt
\* datetime.weekday() of a clock reading: Monday is 0 (1970-01-01 was a Thursday)
WeekdayOf(t) == ((t \div Day) + 3) % 7

\* week_start of resend_prompt: the midnight that began the Monday of the
\* server's current week
ResendWeekStart(clk) == MidnightOf(clk) - WeekdayOf(clk) * Day

\* the ACTIVE members of the team with no submission for week_start
NonResponders(team_id, week_start) ==
    {u \in People :
        /\ memberships[<<team_id, u>>] = "ACTIVE"
        /\ ~\E i \in 1..Len(submissions) :
              /\ submissions[i].teamId = team_id
              /\ submissions[i].weekStartDate = week_start
              /\ submissions[i].userId = u}

\* job_stored = FALSE: the scheduled_prompt_job.create call raises, and the
\* except clause answers 500.
resend_prompt(token, team_id, job_stored) ==
    LET code == TeamAccess(token, team_id)
    IN  IF code # "ok" THEN RefuseTeam("resend_prompt", code, token, team_id)
        ELSE IF NonResponders(team_id, ResendWeekStart(LocalNow(Clock).wall)) = {}
        THEN RefuseTeam("resend_prompt", "200", token, team_id)
        ELSE IF ~job_stored THEN RefuseTeam("resend_prompt", "500", token, team_id)
        ELSE /\ prompts' = Append(prompts, [teamId |-> team_id,
                                            scheduledFor |-> LocalNow(Clock),
                                            status |-> "SENT"])
             /\ last' = [NoCall EXCEPT !.op = "resend_prompt", !.status = "200",
                                       !.team = team_id, !.caller = token,
                                       !.members = NonResponders(team_id,
                                                       ResendWeekStart(LocalNow(Clock).wall))]
             /\ UNCHANGED <<time, aiPatched, memberships, submissions, summaries,
                            evVars, extVars>>

\* ----------------------------------------------------------------- get_user
\* teammembership.find_first: an ACTIVE membership of the requested user in a
\* team that has an ACTIVE membership of the requester
SharesActiveTeam(user_id, current_user_id) ==
    \E t \in Teams :
        /\ memberships[<<t, user_id>>] = "ACTIVE"
        /\ memberships[<<t, current_user_id>>] = "ACTIVE"

\* The answer of get_user(user_id) to the bearer of the token.
GetUserStatus(token, user_id) ==
    LET current_user == get_current_user(token)
    IN  IF current_user = "" THEN "401"
        ELSE IF users[user_id] = "NONE" THEN "404"
        ELSE IF current_user = user_id THEN "200"
        ELSE IF ~SharesActiveTeam(user_id, current_user) THEN "403"
        ELSE "200"

\* last.text is the id of the returned record
get_user(token, user_id) ==
    LET code == GetUserStatus(token, user_id)
    IN  /\ last' = [NoCall EXCEPT !.op = "get_user", !.status = code,
                                  !.caller = token, !.target = user_id,
                                  !.text = IF code = "200" THEN user_id ELSE ""]
        /\ UNCHANGED <<time, aiPatched, dbVars, evVars, extVars>>

\* ------------------------------------------- add_team_members on its own
\* The manager of t1 and one of its members send add_team_members requests.
MemberCallers == {[kind |-> "token", sub |-> "m1"], [kind |-> "token", sub |-> "u1"]}

NextMembers ==
    \E token \in MemberCallers, emails \in EmailLists,
       fail_at \in 0..MaxEmails, after_user \in BOOLEAN :
        fail_at <= Len(emails) /\ add_team_members(token, "t1", emails, fail_at, after_user)

SpecMembers == Init /\ [][NextMembers]_vars

\* ---------------------------------------------- team management on its own
\* Requests of every caller on every team, at one reading of the clock;
\* add_team_members with one email, submissions by u1.
TeamsEmails == {"u3", "m1"}
TeamsSubmitters == {h \in MemberHeaders : h.sub = "u1"}

NextTeams ==
    \/ \E h \in TeamsSubmitters, c \in NewContents :
           create_submission(h, "t1", c) /\ Len(submissions') <= MaxEdited
    \/ \E token \in CallerTokens, t \in TeamIds, e \in TeamsEmails,
          fail_at \in 0..1, after_user \in BOOLEAN :
           add_team_members(token, t, <<e>>, fail_at, after_user)
    \/ \E token \in CallerTokens, t \in TeamIds, schedule \in Schedules,
          stored \in BOOLEAN :
           update_team_schedule(token, t, schedule, stored)
    \/ \E token \in CallerTokens, t \in TeamIds, job_stored \in BOOLEAN :
           resend_prompt(token, t, job_stored) /\ Len(prompts') <= MaxPrompts
    \/ \E token \in CallerTokens, p \in People : get_user(token, p)

SpecTeams == Init /\ [][NextTeams]_vars

\* ------------------------------------------------ claims on team management
TeamOps == {"add_team_members", "update_team_schedule", "resend_prompt"}

\* the caller is a user with role MANAGER who is the manager of team_id
ManagesTeam(token, team_id) ==
    /\ get_current_user(token) # ""
    /\ users[get_current_user(token)] = "MANAGER"
    /\ team_id \in Teams
    /\ teams[team_id].managerId = get_current_user(token)

\* C16: add_team_members is all-or-nothing.  A request that fails at any email
\* of its list leaves the users and the memberships exactly as they were before
\* the request, whatever was written for the emails before the failing one; a
\* request that succeeds leaves every email of the list with a user and with a
\* membership in the team.
C16_StepAllOrNothing ==
    last'.op = "add_team_members" =>
        /\ last'.status # "200" => (users' = users /\ memberships' = memberships)
        /\ last'.status = "200" =>
              \A e \in last'.members :
                  /\ users'[e] # "NONE"
                  /\ memberships'[<<last'.team, e>>] # "NONE"

C16_AllOrNothing == [][C16_StepAllOrNothing]_vars

\* A request failed after the rows of u3, who had neither a user nor a
\* membership, and of m2 were written in the transaction, and they have none.
C16_Witness ==
    /\ last.op = "add_team_members"
    /\ last.status = "500"
    /\ last.members = {"u3", "m2"}
    /\ users["u3"] = "NONE"
    /\ memberships[<<"t1", "u3">>] = "NONE"
    /\ memberships[<<"t1", "m2">>] = "NONE"

\* C17: get_user answers 200 with the target's record when the requester is
\* the manager of a team in which the target is an ACTIVE member.
C17_StepManagerSeesMember ==
    (/\ last'.op = "get_user"
     /\ get_current_user(last'.caller) # ""
     /\ \E t \in Teams : /\ teams[t].managerId = get_current_user(last'.caller)
                         /\ memberships[<<t, last'.target>>] = "ACTIVE")
        => (last'.status = "200" /\ last'.text = last'.target)

C17_ManagerSeesMember == [][C17_StepManagerSeesMember]_vars

\* C18: add_team_members, update_team_schedule and resend_prompt change the
\* memberships, the schedule or the prompt jobs only when the caller has role
\* MANAGER and is the manager of the team of the request; a caller who is not
\* is answered 403, an unknown team 404 and an invalid token 401 (in the order
\* token, role, team, manager), and a request so answered leaves users,
\* memberships, schedule and prompt jobs unchanged.
C18_StepOnlyTheManager ==
    last'.op \in TeamOps =>
        LET token == last'.caller
            t == last'.team
        IN  /\ (memberships' # memberships \/ teams' # teams \/ prompts' # prompts)
                   => ManagesTeam(token, t)
            /\ last'.status \in {"401", "403", "404"}
                   => (memberships' = memberships /\ teams' = teams
                       /\ prompts' = prompts /\ users' = users)
            /\ ~ManagesTeam(token, t) =>
                   last'.status =
                       IF get_current_user(token) = "" THEN "401"
                       ELSE IF users[get_current_user(token)] # "MANAGER" THEN "403"
                       ELSE IF t \notin Teams THEN "404"
                       ELSE "403"

C18_OnlyTheManager == [][C18_StepOnlyTheManager]_vars

\* The manager of t1 changed its schedule and added a member; a later request
\* on t1, by the manager of no team, was answered 403.
C18_Witness ==
    /\ last.op \in TeamOps
    /\ last.status = "403"
    /\ last.team = "t1"
    /\ last.caller.sub = "m2"
    /\ teams["t1"].prompt_day = 2
    /\ memberships[<<"t1", "u3">>] = "ACTIVE"

\* --------------------------------------------------------- verify_magic_link
\* minutes the access token of a verified magic link lives
AccessMinutes == 30

\* The tokens a request can carry: signed with the application's key or not,
\* expiring at a reading of the clock, with the claims type, sub and team_id
\* ("" for a claim that is absent).
MagicTokens ==
    [sig : {"good", "bad"}, exp : {ClockAt(0), ClockAt(1)},
     type : {"magic-link", "access"}, sub : Users \cup {""}, team_id : TeamIds \cup {""}]

\* jwt.decode: JWTError for a wrong signature, ExpiredSignatureError once the
\* clock is past exp.
Decodes(token, clk) == token.sig = "good" /\ ~(token.exp < clk)

\* user.find_first(id, teams some (teamId, status ACTIVE))
UserIsMemberAnyStatus(user_id, team_id) ==
    /\ user_id \in People /\ team_id \in Teams
    /\ users[user_id] # "NONE"
    /\ memberships[<<team_id, user_id>>] # "NONE"
UserIsActiveMember(user_id, team_id) ==
    /\ user_id \in People /\ team_id \in Teams
    /\ users[user_id] # "NONE"
    /\ memberships[<<team_id, user_id>>] = "ACTIVE"

\* The status verify_magic_link answers the token with.
VerifyStatus(token) ==
    IF ~Decodes(token, Clock) THEN "401"
    ELSE IF token.type # "magic-link" THEN "401"
    ELSE IF token.sub = "" \/ token.team_id = "" THEN "401"
    ELSE IF ~UserIsActiveMember(token.sub, token.team_id) THEN "404"
    ELSE "200"

\* issuedToken is the access token of the response, NoToken when it has none
verify_magic_link(token) ==
    /\ last' = [NoCall EXCEPT !.op = "verify_magic_link", !.status = VerifyStatus(token),
                              !.team = token.team_id, !.target = token.sub]
    /\ issuedToken' = IF VerifyStatus(token) = "200"
                      THEN [sub |-> token.sub, team_id |-> token.team_id,
                            type |-> "access", minutes |-> AccessMinutes]
                      ELSE NoToken
    /\ UNCHANGED <<time, aiPatched, dbVars, evVars, aiCall, users, teams, gen, regVars>>

\* Magic links on their own: the clock moves, members submit (a PENDING
\* membership becomes ACTIVE), the manager adds a member, links are verified.
ManagerToken == [kind |-> "token", sub |-> "m1"]

NextMagic ==
    \/ Tick
    \/ \E h \in MemberHeaders, c \in NewContents :
           create_submission(h, "t1", c) /\ Len(submissions') <= MaxEdited
    \/ add_team_members(ManagerToken, "t1", <<"u3">>, 0, FALSE)
    \/ \E token \in MagicTokens : verify_magic_link(token)

SpecMagic == Init /\ [][NextMagic]_vars

\* C15: verify_magic_link issues an access token (for the token's user and
\* team, 30 minutes) only for a token that is correctly signed, unexpired, of
\* type magic-link, carries both a user id and a team id, and whose user is at
\* that moment an ACTIVE member of that team; a token that fails one of the
\* first four is answered 401, one whose user or membership is not valid 404,
\* and neither yields an access token.
C15_StepOnlyValidLinks ==
    \A token \in MagicTokens :
        verify_magic_link(token) =>
            LET well_formed == /\ token.sig = "good"
                               /\ token.exp >= Clock
                               /\ token.type = "magic-link"
                               /\ token.sub # "" /\ token.team_id # ""
                member == /\ token.team_id \in Teams
                          /\ users[token.sub] # "NONE"
                          /\ memberships[<<token.team_id, token.sub>>] = "ACTIVE"
            IN  /\ (issuedToken' # NoToken) <=> (well_formed /\ member)
                /\ (well_formed /\ member) =>
                       /\ last'.status = "200"
                       /\ issuedToken' = [sub |-> token.sub, team_id |-> token.team_id,
                                          type |-> "access", minutes |-> 30]
                /\ ~well_formed => last'.status = "401"
                /\ (well_formed /\ ~member) => last'.status = "404"

C15_OnlyValidLinks == [][C15_StepOnlyValidLinks]_vars

\* u2, whose membership was PENDING when the team was set up, submitted and
\* then had a magic link verified: the access token is for u2 and t1.
C15_Witness ==
    /\ last.op = "verify_magic_link"
    /\ last.status = "200"
    /\ issuedToken = [sub |-> "u2", team_id |-> "t1", type |-> "access", minutes |-> 30]
    /\ memberships[<<"t1", "u2">>] = "ACTIVE"
    /\ time > 0

\* ------------------------------------------- generate_summary, interleaved
\* SummaryService.generate_summary awaits every query, so the calls of two
\* request contexts interleave between the queries.  A call is modelled in two
\* steps: up to and including the lookup of the existing summary, and the write
\* that follows it.

\* The store's uniqueness of (teamId, weekStartDate) on weekly summaries: a
\* create is accepted when no row has the pair.
UniqueTeamWeek(rows, team_id, week_start_date) ==
    ExistingSummaries(rows, team_id, week_start_date) = {}

\* weeklysummary.create: the rows after it, unchanged when the store refuses it
CreateWritesAlways(rows, row) == Append(rows, row)
CreateWrites(rows, row) ==
    IF UniqueTeamWeek(rows, row.teamId, row.weekStartDate) THEN Append(rows, row)
    ELSE rows

\* Lines 29-56: the team and the submissions are checked, the text is
\* generated, the existing summary is looked up (0: none).
GenLookup(c, team_id, week_start, trigger_type) ==
    LET subs == TeamWeekSubmissions(team_id, week_start)
    IN  /\ gen[c].pc = "idle"
        /\ \E ai \in AiOutcomes :
             IF team_id \notin Teams \/ subs = <<>> \/ ai = AiRaises
             THEN gen' = [gen EXCEPT ![c] = [GenIdle EXCEPT !.pc = "done",
                                                            !.team = team_id,
                                                            !.status = "raised"]]
             ELSE LET week_start_date == subs[1].weekStartDate
                      existing == ExistingSummaries(summaries, team_id, week_start_date)
                  IN  \E i \in (IF existing = {} THEN {0} ELSE existing) :
                         gen' = [gen EXCEPT ![c] =
                                    [pc |-> "looked", team |-> team_id,
                                     week |-> week_start_date, text |-> ai,
                                     trigger |-> trigger_type, existing |-> i,
                                     status |-> ""]]
        /\ last' = [NoCall EXCEPT !.op = "generate_summary_lookup", !.team = team_id]
        /\ UNCHANGED <<time, aiPatched, dbVars, evVars, aiCall, issuedToken, users, teams,
                       regVars>>

\* Lines 58-76: the row found is updated, or a row is created; a create the
\* store refuses raises.
GenWrite(c) ==
    LET g == gen[c]
        row == CreatedSummary(g.team, g.week, g.text, g.trigger, Clock)
    IN  /\ g.pc = "looked"
        /\ IF g.existing # 0
           THEN /\ summaries' = [summaries EXCEPT
                       ![g.existing] = UpdatedSummary(@, g.text, g.trigger, Clock)]
                /\ gen' = [gen EXCEPT ![c] = [g EXCEPT !.pc = "done",
                                                       !.status = "returned"]]
           ELSE /\ summaries' = CreateWrites(summaries, row)
                /\ gen' = [gen EXCEPT ![c] =
                              [g EXCEPT !.pc = "done",
                                        !.status = IF summaries' # summaries
                                                   THEN "returned" ELSE "raised"]]
        /\ last' = [NoCall EXCEPT !.op = "generate_summary", !.team = g.team,
                                  !.trigger = g.trigger, !.week = g.week,
                                  !.status = gen'[c].status,
                                  !.found = (g.existing # 0)]
        /\ UNCHANGED <<time, aiPatched, memberships, prompts, submissions, evVars,
                       aiCall, issuedToken, users, teams, regVars>>

\* The caller has its answer; the context takes the next request.
GenReturn(c) ==
    /\ gen[c].pc = "done"
    /\ gen' = [gen EXCEPT ![c] = GenIdle]
    /\ last' = [NoCall EXCEPT !.op = "generate_summary_return"]
    /\ UNCHANGED <<time, aiPatched, dbVars, evVars, aiCall, issuedToken, users, teams,
                       regVars>>

NextConcurrent ==
    \/ \E h \in TeamsSubmitters :
          create_submission(h, "t1", "c1") /\ Len(submissions') <= MaxEdited
    \/ \E c \in Callers, t \in TeamIds, w \in StoredWeeks, tr \in TriggerTypes :
          GenLookup(c, t, w, tr)
    \/ \E c \in Callers : GenWrite(c)
    \/ \E c \in Callers : GenReturn(c)

SpecConcurrent == Init /\ [][NextConcurrent]_vars

\* C19: when two generate_summary calls for the same (team, week) have both
\* looked up the existing summary and found none before either writes, the
\* store's uniqueness of (team, week-start-date) leaves at most one Summary
\* record for the pair: the first write creates it, the second ends in an error
\* and leaves the summaries as they are (no second record, the first not
\* updated).  At every moment there is at most one record per (team, week).
C19_StepLoserChangesNothing ==
    \A c \in Callers :
        (/\ GenWrite(c)
         /\ gen[c].existing = 0
         /\ ExistingSummaries(summaries, gen[c].team, gen[c].week) # {})
            => (summaries' = summaries /\ gen'[c].status = "raised")

C19_StepWinnerCreates ==
    \A c \in Callers :
        (/\ GenWrite(c)
         /\ gen[c].existing = 0
         /\ ExistingSummaries(summaries, gen[c].team, gen[c].week) = {})
            => /\ Len(summaries') = Len(summaries) + 1
               /\ gen'[c].status = "returned"

C19_UniquenessHoldsUnderInterleaving ==
    /\ []OneSummaryPerTeamWeek(summaries)
    /\ [][C19_StepLoserChangesNothing /\ C19_StepWinnerCreates]_vars

\* Both callers looked up the summary of the same team and week and found
\* none; both have written: one returned, the other raised, one record.
C19_Witness ==
    /\ gen["a"].pc = "done" /\ gen["b"].pc = "done"
    /\ gen["a"].existing = 0 /\ gen["b"].existing = 0
    /\ gen["a"].team = gen["b"].team /\ gen["a"].week = gen["b"].week
    /\ {gen["a"].status, gen["b"].status} = {"returned", "raised"}
    /\ gen["a"].text # "" /\ gen["b"].text # ""
    /\ Len(summaries) = 1

\* ------------------------------------------------------ get_team_dashboard
\* The ACTIVE members the dashboard reports hasSubmitted for: those with a
\* submission whose weekStartDate is week_start.
HasSubmitted(team_id, week_start) ==
    {u \in People :
        /\ memberships[<<team_id, u>>] = "ACTIVE"
        /\ \E i \in 1..Len(submissions) :
              /\ submissions[i].teamId = team_id
              /\ submissions[i].weekStartDate = week_start
              /\ submissions[i].userId = u}

\* The status get_team_dashboard answers with: the manager and every member of
\* the team, whatever the membership status, may read it.
DashboardStatus(token, team_id) ==
    LET current_user == get_current_user(token)
    IN  IF current_user = "" THEN "401"
        ELSE IF team_id \notin Teams THEN "404"
        ELSE IF ~(\/ teams[team_id].managerId = current_user
                  \/ memberships[<<team_id, current_user>>] # "NONE") THEN "403"
        ELSE "200"

\* last.week is currentWeek.startDate, last.members the members reported with
\* hasSubmitted
get_team_dashboard(token, team_id) ==
    LET code == DashboardStatus(token, team_id)
        week_start == ResendWeekStart(LocalNow(Clock).wall)
    IN  /\ last' = IF code # "200"
                   THEN [NoCall EXCEPT !.op = "get_team_dashboard", !.status = code,
                                       !.team = team_id, !.caller = token]
                   ELSE [NoCall EXCEPT !.op = "get_team_dashboard", !.status = code,
                                       !.team = team_id, !.caller = token,
                                       !.week = week_start,
                                       !.members = HasSubmitted(team_id, week_start)]
        /\ UNCHANGED <<time, aiPatched, dbVars, evVars, extVars>>

\* ------------------------------------------------- the week, on its own
\* Bound: the prompt jobs stored while the week is explored.
MaxWeekPrompts == 2

\* The server's local time is any of the zones.
InitZoned ==
    /\ time = 0
    /\ aiPatched \in BOOLEAN
    /\ InitDb
    /\ InitEvalIdle
    /\ InitExtRest
    /\ serverZone \in ServerZones

\* The rosters check_and_generate_if_needed is called with: before and after
\* u2 counts as a member.
WeekRosters == {{"u1"}, {"u1", "u2"}}

\* The manager of t1 resends prompts and reads the dashboard, u1 submits, the
\* summary check runs, while the clock runs through all its readings.
NextWeek ==
    \/ TickOn
    \/ \E h \in TeamsSubmitters :
          /\ create_submission(h, "t1", "c1")
          /\ Len(submissions') <= MaxEdited /\ Len(prompts') <= MaxWeekPrompts
    \/ \E job_stored \in BOOLEAN :
          resend_prompt(ManagerToken, "t1", job_stored) /\ Len(prompts') <= MaxWeekPrompts
    \/ get_team_dashboard(ManagerToken, "t1")
    \/ \E members \in WeekRosters : check_and_generate_if_needed("t1", members)

SpecWeek == InitZoned /\ [][NextWeek]_vars

\* The time at which resend_prompt stored a prompt job: the job carries the
\* server's local time, without tzinfo.
ResentAt(job) == job.scheduledFor.wall - serverZone
Resent(team_id) ==
    {i \in 1..Len(prompts) :
        /\ prompts[i].teamId = team_id
        /\ prompts[i].status = "SENT"
        /\ prompts[i].scheduledFor.tz = "NONE"}

\* the Monday 00:00 UTC of the week a clock reading lies in
WeekOf(clk) == MidnightOf(clk) - WeekdayOf(clk) * Day

\* C21: lateness is measured against the latest SENT prompt.  A submission
\* created within 24 hours of a prompt that resend_prompt stored for the team
\* is recorded as not late, even when an earlier prompt is older than 24 hours.
C21_StepResentPromptNotLate ==
    (last'.op = "create_submission" /\ last'.status = "200") =>
        LET row == submissions'[last'.sub]
        IN  (\E i \in Resent(row.teamId) :
                 /\ ResentAt(prompts[i]) <= Clock
                 /\ Clock <= ResentAt(prompts[i]) + 24 * Hour)
                => ~row.isLate

SubmittedThisWeek(team_id) ==
    {u \in People :
        /\ memberships[<<team_id, u>>] = "ACTIVE"
        /\ \E i \in 1..Len(submissions) :
              /\ submissions[i].teamId = team_id
              /\ submissions[i].userId = u
              /\ WeekOf(submissions[i].submittedAt) = WeekOf(Clock)}

C22_StepCountedThisWeek ==
    /\ (last'.op = "get_team_dashboard" /\ last'.status = "200")
           => SubmittedThisWeek(last'.team) \subseteq last'.members
    /\ (last'.op = "resend_prompt" /\ last'.status \in {"200", "500"}
        /\ last'.caller = ManagerToken)
           => SubmittedThisWeek(last'.team) \cap
                  NonResponders(last'.team, ResendWeekStart(LocalNow(Clock).wall)) = {}

C22_CountedThisWeek == [][C22_StepCountedThisWeek]_vars

\* C23: check_and_generate_if_needed evaluates the team's submissions of the
\* current reporting week.  Every submission the team made this week is among
\* the submissions a check_and_generate_if_needed call counts, also when the
\* call is made on a later day than the prompt.
C23_StepCountsTheWeek ==
    last'.op = "check_and_generate_if_needed" =>
        \A i \in 1..Len(submissions) :
            (/\ submissions[i].teamId = last'.team
             /\ WeekOf(submissions[i].submittedAt) = WeekOf(Clock))
                => submissions[i].weekStartDate = CheckWeekStart(NowUtc(Clock))

C23_CountsTheWeek == [][C23_StepCountsTheWeek]_vars

\* C27: a Summary that carries the trigger reason ALL_SUBMITTED is never given
\* the trigger reason TIMEOUT by a check_and_generate_if_needed call, also when
\* the roster has grown in between.
C27_StepAllSubmittedStays ==
    last'.op = "check_and_generate_if_needed" =>
        \A i \in 1..Len(summaries) :
            summaries[i].triggerType = "ALL_SUBMITTED"
                => summaries'[i].triggerType # "TIMEOUT"

NewTeamIds == <<"t2", "t3">>
\* The prompt days a request carries: Wednesday, and a day that does not exist.
PromptDays == {2, 7}
\* The emails a registration is sent for: one without and one with an account.
RegisterEmails == {"u3", "m2"}
\* The member lists of a registration; an email may be listed twice.
RegisterMembers == SeqsUpTo({"u1", "u3"}, MaxEmails)

\* TeamMembership is unique on (teamId, userId): teammembership.create raises
\* for a second row of a team and user.  A new team has no rows, so the creates
\* of a registration raise exactly when the list repeats an email.
RepeatsMember(members) ==
    \E i, j \in 1..Len(members) : i # j /\ members[i] = members[j]

\* user.create (role MANAGER), then user.upsert for each member
RegisteredUsers(email, members) ==
    [p \in People |->
        IF p = email THEN "MANAGER"
        ELSE IF users[p] = "NONE" /\ (\E i \in 1..Len(members) : members[i] = p)
        THEN "MEMBER"
        ELSE users[p]]

\* team.create with the request's schedule, the new user as manager
RegisteredTeam(email, prompt_day) ==
    [id |-> NewTeamIds[Len(createdTeams) + 1], managerId |-> email,
     prompt_day |-> prompt_day, prompt_time |-> "09:00", timezone |-> "UTC"]

\* teammembership.create for each member of the list
RegisteredRows(team_id, members) ==
    memberRows \o [i \in 1..Len(members) |-> [teamId |-> team_id, userId |-> members[i]]]

\* tx_fails: a query of the transaction raises for a reason of the store.  An
\* exception inside the block is answered 400 and the transaction is rolled
\* back; last.target is the registered email.
register(email, prompt_day, members, tx_fails) ==
    IF users[email] # "NONE"
    THEN /\ last' = [NoCall EXCEPT !.op = "register", !.status = "400", !.target = email,
                                   !.week = prompt_day]
         /\ UNCHANGED <<time, aiPatched, dbVars, evVars, extVars>>
    ELSE LET failed == tx_fails \/ RepeatsMember(members)
             team == RegisteredTeam(email, prompt_day)
         IN  /\ Len(createdTeams) < Len(NewTeamIds)
             /\ users' = TxOutcome(RegisteredUsers(email, members), users, failed)
             /\ createdTeams' = TxOutcome(Append(createdTeams, team), createdTeams, failed)
             /\ memberRows' = TxOutcome(RegisteredRows(team.id, members), memberRows,
                                        failed)
             /\ last' = [NoCall EXCEPT !.op = "register",
                                       !.status = IF failed THEN "400" ELSE "200",
                                       !.target = email, !.week = prompt_day,
                                       !.members = {members[i] : i \in 1..Len(members)}]
             /\ UNCHANGED <<time, aiPatched, dbVars, evVars, aiCall, issuedToken, teams,
                            gen, serverZone, anonTokens>>

\* ------------------------------------------------------------- create_team
\* stored = FALSE: team.create raises, and the except clause answers 500;
\* last.week is the prompt day of the request.
create_team(token, prompt_day, stored) ==
    LET current_user == get_current_user(token)
        refused(code) ==
            /\ last' = [NoCall EXCEPT !.op = "create_team", !.status = code,
                                      !.caller = token, !.week = prompt_day]
            /\ UNCHANGED <<time, aiPatched, dbVars, evVars, extVars>>
    IN  IF current_user = "" THEN refused("401")
        ELSE IF ~IsManagerRole(current_user) THEN refused("403")
        ELSE IF ~(0 <= prompt_day /\ prompt_day <= 6) THEN refused("400")
        ELSE IF ~stored THEN refused("500")
        ELSE /\ Len(createdTeams) < Len(NewTeamIds)
             /\ createdTeams' = Append(createdTeams,
                                       RegisteredTeam(current_user, prompt_day))
             /\ last' = [NoCall EXCEPT !.op = "create_team", !.status = "201",
                                       !.caller = token, !.week = prompt_day]
             /\ UNCHANGED <<time, aiPatched, dbVars, evVars, aiCall, issuedToken, users,
                            teams, gen, serverZone, memberRows, anonTokens>>

\* ------------------------------------------- registration, on its own
\* Registrations, and the team requests of the manager of t1 and of the person
\* who registers; the manager adds u2, who is a member, and u3.
RegisterCallers == {[kind |-> "token", sub |-> "m1"], [kind |-> "token", sub |-> "u3"]}
RegisterAdded == SeqsUpTo({"u2", "u3"}, MaxEmails)

NextRegister ==
    \/ \E email \in RegisterEmails, prompt_day \in PromptDays,
          members \in RegisterMembers, tx_fails \in BOOLEAN :
          register(email, prompt_day, members, tx_fails)
    \/ \E token \in RegisterCallers, prompt_day \in PromptDays, stored \in BOOLEAN :
          create_team(token, prompt_day, stored)
    \/ \E token \in RegisterCallers, schedule \in Schedules, stored \in BOOLEAN :
          update_team_schedule(token, "t1", schedule, stored)
    \/ \E emails \in RegisterAdded, fail_at \in 0..1 :
          fail_at <= Len(emails) /\ add_team_members(ManagerToken, "t1", emails, fail_at, TRUE)

SpecRegister == Init /\ [][NextRegister]_vars

\* C24: there is at most one TeamMembership per (team, user) after any
\* sequence of register and add_team_members calls.  An add_team_members call
\* creates no row for a user who has one in the team, and the memberships of t1
\* are the users with a row.
OneRowPerTeamUser(rows) ==
    \A i, j \in 1..Len(rows) :
        (rows[i].teamId = rows[j].teamId /\ rows[i].userId = rows[j].userId) => i = j

C24_StepAlreadyMember ==
    (last'.op = "add_team_members" /\ last'.status = "200") =>
        \A u \in last'.members :
            HasRow(memberRows, last'.team, u) =>
                Cardinality({i \in 1..Len(memberRows') :
                                /\ memberRows'[i].teamId = last'.team
                                /\ memberRows'[i].userId = u}) = 1

C24_OneMembershipPerTeamUser ==
    /\ [](OneRowPerTeamUser(memberRows)
          /\ \A u \in People : (memberships[<<"t1", u>>] # "NONE") = HasRow(memberRows, "t1", u))
    /\ [][C24_StepAlreadyMember]_vars

\* C24 witness: after a registration with members, an add_team_members call
\* named a user who already had a row in the team, next to a new one.
C24_Witness ==
    /\ last.op = "add_team_members" /\ last.status = "200"
    /\ {"u2", "u3"} \subseteq last.members
    /\ HasRow(memberRows, "t1", "u3")
    /\ \E i \in 1..Len(memberRows) : memberRows[i].teamId = "t2"
    /\ Len(memberRows) > 3

\* C25: a successful create_submission by a user whose membership in the team
\* is PENDING sets that membership to ACTIVE, and no operation changes a
\* membership from ACTIVE back to PENDING.
C25_StepPendingBecomesActive ==
    /\ (last'.op = "create_submission" /\ last'.status = "200") =>
           LET row == submissions'[last'.sub]
           IN  memberships[<<row.teamId, row.userId>>] = "PENDING"
                   => memberships'[<<row.teamId, row.userId>>] = "ACTIVE"
    /\ \A p \in Teams \X People :
           memberships[p] = "ACTIVE" => memberships'[p] # "PENDING"

C25_PendingBecomesActive == [][C25_StepPendingBecomesActive]_vars

\* C25 witness: u2, whose membership was PENDING, has submitted and is ACTIVE.
C25_Witness ==
    /\ last.op = "create_submission" /\ last.status = "200"
    /\ submissions[last.sub].userId = "u2"
    /\ memberships[<<"t1", "u2">>] = "ACTIVE"

\* C26: every stored team has a prompt day between 0 (Monday) and 6 (Sunday)
\* after any sequence of register, create_team and update_team_schedule calls;
\* a request that carries a prompt day outside that range is refused (400, or
\* 401/403 for a caller who may not send it) and stores nothing.
C26_StepOutOfRangeRefused ==
    (last'.op \in {"register", "create_team"} /\ ~(0 <= last'.week /\ last'.week <= 6))
        => /\ last'.status \in {"400", "401", "403"}
           /\ createdTeams' = createdTeams
           /\ teams' = teams

C26_PromptDayInRange ==
    /\ []((\A t \in Teams : 0 <= teams[t].prompt_day /\ teams[t].prompt_day <= 6)
          /\ \A i \in 1..Len(createdTeams) :
                 0 <= createdTeams[i].prompt_day /\ createdTeams[i].prompt_day <= 6)
    /\ [][C26_StepOutOfRangeRefused]_vars

\* ======================================================== token types
\* The tokens the server has signed for the manager and a member of t1: the
\* access and refresh tokens of a login, and a magic-link token.
TypedTokens ==
    {[kind |-> "token", sub |-> p, type |-> ty] :
        p \in {"m1", "u1"}, ty \in {"access", "refresh", "magic-link"}}
    \cup {[kind |-> "undecodable", sub |-> "", type |-> ""]}

\* logout answers every caller get_current_user lets through.
logout(token) ==
    /\ last' = [NoCall EXCEPT !.op = "logout",
                              !.status = IF get_current_user(token) = "" THEN "401"
                                         ELSE "200",
                              !.caller = token]
    /\ UNCHANGED <<time, aiPatched, dbVars, evVars, extVars>>

\* Requests to the routes behind get_current_user, with each of the tokens.
NextTokens ==
    \/ \E token \in TypedTokens : logout(token)
    \/ \E token \in TypedTokens, p \in People : get_user(token, p)
    \/ \E token \in TypedTokens : get_team_dashboard(token, "t1")
    \/ \E token \in TypedTokens, schedule \in Schedules, stored \in BOOLEAN :
          update_team_schedule(token, "t1", schedule, stored)

SpecTokens == Init /\ [][NextTokens]_vars

\* C28: an endpoint protected by get_current_user accepts only a token of type
\* access as a credential.  A request to logout, a team route or a user route
\* that carries a token of type refresh or magic-link is answered 401 and
\* changes nothing.
C28_StepOnlyAccessTokens ==
    (/\ last'.op \in {"logout", "get_user", "get_team_dashboard", "update_team_schedule"}
     /\ last'.caller.type # "access")
        => last'.status = "401" /\ teams' = teams

C28_OnlyAccessTokens == [][C28_StepOnlyAccessTokens]_vars

\* ============================================ create_submission, store failing
\* create_submission when a query of the store raises after the membership
\* check: fail_at = "prompt", the scheduledpromptjob query or create raises;
\* fail_at = "submission", submission.create raises.  The except clause answers
\* 500.  The handler opens no transaction, so what it wrote before stays.
create_submission_store_fails(header, team_id, content, fail_at) ==
    IF ~Authenticated(header) THEN Reject("create_submission", "401", team_id)
    ELSE IF team_id \notin Teams THEN Reject("create_submission", "404", team_id)
    ELSE IF ~MaySubmit(memberships[<<team_id, header.sub>>])
    THEN Reject("create_submission", "403", team_id)
    ELSE /\ memberships' = [memberships EXCEPT
                               ![<<team_id, header.sub>>] = UpgradedStatus(@)]
         /\ prompts' = IF fail_at = "submission" /\ LatestSent(prompts, team_id) = {}
                       THEN Append(prompts, DefaultPrompt(team_id, NowUtc(Clock)))
                       ELSE prompts
         /\ last' = [NoCall EXCEPT !.op = "create_submission", !.status = "500",
                                   !.team = team_id]
         /\ UNCHANGED <<time, aiPatched, submissions, summaries, evVars, extVars>>

\* Submissions of the members of t1 while the store may fail and the clock
\* moves.
NextFailing ==
    \/ Tick
    \/ \E h \in MemberHeaders, c \in NewContents :
           create_submission(h, "t1", c) /\ Len(submissions') <= MaxEdited
    \/ \E h \in MemberHeaders, c \in NewContents, fail_at \in {"prompt", "submission"} :
           /\ create_submission_store_fails(h, "t1", c, fail_at)
           /\ Len(prompts') <= MaxPrompts

SpecFailing == Init /\ [][NextFailing]_vars

\* C29: a create_submission request that ends in an error response, a store
\* failure answered 500 included, leaves the stored data unchanged: the
\* caller's membership status is as before and no prompt job has been created.
C29_StepErrorChangesNothing ==
    (last'.op = "create_submission" /\ last'.status # "200") =>
        /\ memberships' = memberships
        /\ prompts' = prompts
        /\ submissions' = submissions

C29_ErrorChangesNothing == [][C29_StepErrorChangesNothing]_vars

\* ==================================================== callers without credentials
\* hours a magic link lives (MAGIC_LINK_EXPIRE)
MagicLinkHours == 72

\* create_magic_link_token(user_id, team_id) at a reading of the clock
MagicLinkToken(user_id, team_id, clk) ==
    [sig |-> "good", exp |-> clk + MagicLinkHours * Hour, type |-> "magic-link",
     sub |-> user_id, team_id |-> team_id]

\* create_magic_link has no dependency that authenticates the caller.  The
\* user of the email is created when there is none; the link is part of the
\* response.  accessor_ok = FALSE: the client has no attribute team_membership
\* (the other handlers use teammembership), the lookup raises and the request
\* is answered 500.
create_magic_link(team_id, user_email, accessor_ok) ==
    LET code == IF ~accessor_ok THEN "500"
                ELSE IF ~(team_id \in Teams
                          /\ memberships[<<team_id, user_email>>] = "ACTIVE") THEN "404"
                ELSE "200"
    IN  /\ users' = [users EXCEPT ![user_email] = IF @ = "NONE" THEN "MEMBER" ELSE @]
        /\ anonTokens' = IF code = "200"
                         THEN anonTokens \cup {MagicLinkToken(user_email, team_id, Clock)}
                         ELSE anonTokens
        /\ last' = [NoCall EXCEPT !.op = "create_magic_link", !.status = code,
                                  !.team = team_id, !.target = user_email]
        /\ UNCHANGED <<time, aiPatched, dbVars, evVars, aiCall, issuedToken, teams, gen,
                       serverZone, memberRows, createdTeams>>

\* login: 401 unless the user exists and the password verifies; issuedToken is
\* the access token of the response.
login(email, password_ok) ==
    LET ok == users[email] # "NONE" /\ password_ok
    IN  /\ last' = [NoCall EXCEPT !.op = "login", !.status = IF ok THEN "200" ELSE "401",
                                  !.target = email]
        /\ issuedToken' = IF ok THEN [sub |-> email, team_id |-> "", type |-> "access",
                                      minutes |-> AccessMinutes]
                          ELSE NoToken
        /\ UNCHANGED <<time, aiPatched, dbVars, evVars, aiCall, users, teams, gen, regVars>>

\* The tokens a caller can make up: not signed with the application's key.
ForgedTokens ==
    {t \in MagicTokens : t.sig = "bad" /\ t.type = "magic-link" /\ t.team_id = "t1"}

\* A caller who holds no password and no token asks for magic links, verifies
\* what the responses gave and what can be made up, and tries to log in, while
\* the clock moves.
NextAnon ==
    \/ Tick
    \/ \E t \in TeamIds, e \in People, accessor_ok \in BOOLEAN :
          create_magic_link(t, e, accessor_ok)
    \/ \E token \in anonTokens \cup ForgedTokens : verify_magic_link(token)
    \/ \E e \in People : login(e, FALSE)

SpecAnon == Init /\ [][NextAnon]_vars

====
